---- MODULE Spec2Model ----
(***************************************************************************)
(* Model of scripts/image-scrapers/scrape_social_images.py: three source   *)
(* adapters (scrape_reddit_images, scrape_pinterest_images,                *)
(* scrape_flickr_images) and the aggregator main.                          *)
(*                                                                         *)
(* Python strings are sequences of one-character strings, so that          *)
(* endswith, "in", lower and replace are computed rather than assumed.     *)
(* A JSON value is a tagged record: Null, JInt(n) or JStr(s).  A JSON object *)
(* (Python dict) is a TLA+ record holding exactly the keys that are        *)
(* present, so dict.get(key, default) is Get.                              *)
(***************************************************************************)
EXTENDS Integers, Sequences, FiniteSets, TLC

\* ------------------------------------------------------------------ bounds
\* Longest list of entries (posts, pins, feed items) in one response.
MaxEntries == 2
\* Largest value of --max-images that is explored (the smallest is -1).
MaxCap == 2

\* ------------------------------------------------------- string constants
ext_jpg == <<".", "j", "p", "g">>
ext_jpeg == <<".", "j", "p", "e", "g">>
ext_png == <<".", "p", "n", "g">>
ext_gif == <<".", "g", "i", "f">>
ext_webp == <<".", "w", "e", "b", "p">>
host_reddit == <<"i", ".", "r", "e", "d", "d", ".", "i", "t">>
host_imgur == <<"i", ".", "i", "m", "g", "u", "r", ".", "c", "o", "m">>
kw_meme == <<"m", "e", "m", "e">>
kw_funny == <<"f", "u", "n", "n", "y">>
kw_joke == <<"j", "o", "k", "e">>
kw_selfie == <<"s", "e", "l", "f", "i", "e">>
kw_myface == <<"m", "y", " ", "f", "a", "c", "e">>
suffix_m == <<"_", "m", ".", "j", "p", "g">>
suffix_b == <<"_", "b", ".", "j", "p", "g">>
UpperAlpha == <<"A", "B", "C", "D", "E", "F", "G", "H", "I", "J", "K", "L", "M", "N", "O", "P", "Q", "R", "S", "T", "U", "V", "W", "X", "Y", "Z">>
LowerAlpha == <<"a", "b", "c", "d", "e", "f", "g", "h", "i", "j", "k", "l", "m", "n", "o", "p", "q", "r", "s", "t", "u", "v", "w", "x", "y", "z">>

\* The fixed list of sub-communities, in request order.
subreddits == <<"itookapicture", "travelphotography", "earthporn", "cityporn", "villageporn", "architectureporn">>
\* The image extensions accepted by str.endswith.
image_extensions == <<ext_jpg, ext_jpeg, ext_png, ext_gif, ext_webp>>
\* The title exclusion keywords.
exclude == <<kw_meme, kw_funny, kw_joke, kw_selfie, kw_myface>>
\* The choices of --platforms.
platform_choices == {"reddit", "pinterest", "flickr"}

\* ------------------------------------------------------------ JSON values
Null == [t |-> "null"]
JInt(n) == [t |-> "int", v |-> n]
JStr(s) == [t |-> "str", v |-> s]
JObj(d) == [t |-> "obj", v |-> d]
IsStr(x) == x.t = "str"
IsInt(x) == x.t = "int"
IsObj(x) == x.t = "obj"
\* The dict with no keys.
EmptyDict == [k \in {} |-> Null]

\* dict.get(key, default)
Get(d, key, default) == IF key \in DOMAIN d THEN d[key] ELSE default
\* dict.get(key): None when the key is missing
GetNone(d, key) == Get(d, key, Null)
\* Python truthiness of a JSON value
Truthy(x) ==
    CASE x.t = "null" -> FALSE
      [] x.t = "int" -> x.v # 0
      [] x.t = "str" -> x.v # <<>>
      [] x.t = "obj" -> DOMAIN x.v # {}
      [] OTHER -> TRUE

\* --------------------------------------------------------- str operations
\* s.endswith(suffix)
EndsWith(s, suffix) ==
    /\ Len(s) >= Len(suffix)
    /\ SubSeq(s, Len(s) - Len(suffix) + 1, Len(s)) = suffix

\* sub in s
Contains(s, sub) ==
    \E i \in 1..(Len(s) - Len(sub) + 1) : SubSeq(s, i, i + Len(sub) - 1) = sub

LowerChar(c) ==
    IF \E k \in 1..Len(UpperAlpha) : UpperAlpha[k] = c
    THEN LowerAlpha[CHOOSE k \in 1..Len(UpperAlpha) : UpperAlpha[k] = c]
    ELSE c

\* s.lower()
Lower(s) == [i \in 1..Len(s) |-> LowerChar(s[i])]

\* s.replace(old, new), old non-empty: leftmost non-overlapping occurrences
RECURSIVE Replace(_, _, _)
Replace(s, old, new) ==
    IF Len(s) < Len(old) THEN s
    ELSE IF SubSeq(s, 1, Len(old)) = old
         THEN new \o Replace(SubSeq(s, Len(old) + 1, Len(s)), old, new)
         ELSE <<s[1]>> \o Replace(Tail(s), old, new)

\* seq[:n], with Python's meaning of a negative stop
Slice(seq, n) ==
    IF n >= 0
    THEN SubSeq(seq, 1, IF n < Len(seq) THEN n ELSE Len(seq))
    ELSE SubSeq(seq, 1, IF Len(seq) + n > 0 THEN Len(seq) + n ELSE 0)

\* The printable ASCII characters in code point order (without the grave
\* accent, which a string of this module cannot hold).
AsciiChars == <<" ", "!", "\"", "#", "$", "%", "&", "'", "(", ")", "*", "+", ",", "-", ".", "/", "0", "1", "2", "3", "4", "5", "6", "7", "8", "9", ":", ";", "<", "=", ">", "?", "@", "A", "B", "C", "D", "E", "F", "G", "H", "I", "J", "K", "L", "M", "N", "O", "P", "Q", "R", "S", "T", "U", "V", "W", "X", "Y", "Z", "[", "\\", "]", "^", "_", "a", "b", "c", "d", "e", "f", "g", "h", "i", "j", "k", "l", "m", "n", "o", "p", "q", "r", "s", "t", "u", "v", "w", "x", "y", "z", "{", "|", "}", "~">>

\* The position of a character in the order of str comparison.
Ord(c) == CHOOSE i \in 1..Len(AsciiChars) : AsciiChars[i] = c

\* a < b for two str: the order of the first differing character, a proper
\* prefix being smaller
StrLess(a, b) ==
    \E i \in 1..(Len(a) + 1) :
        /\ \A j \in 1..(i - 1) : j <= Len(b) /\ a[j] = b[j]
        /\ \/ i = Len(a) + 1 /\ i <= Len(b)
           \/ i <= Len(a) /\ i <= Len(b) /\ Ord(a[i]) < Ord(b[i])

\* s.split(c)[0]: the text in front of the first c, all of s without a c
SplitFirst(s, c) ==
    IF \E i \in 1..Len(s) : s[i] = c
    THEN SubSeq(s, 1, (CHOOSE i \in 1..Len(s) : s[i] = c /\ \A j \in 1..(i - 1) : s[j] # c) - 1)
    ELSE s

\* s.split(c)[1], for s that contains c: the text between the first c and
\* the next one
SplitSecond(s, c) ==
    LET first == CHOOSE i \in 1..Len(s) : s[i] = c /\ \A j \in 1..(i - 1) : s[j] # c
    IN  SplitFirst(SubSeq(s, first + 1, Len(s)), c)

\* ---------------------------------------------------------- forum adapter
\* Variant of CapReached: the test written with > instead of >=.
CapReached_strict(images, max_images) == Len(images) > max_images

\* len(images) >= max_images, the test of both loops of scrape_reddit_images
CapReached(images, max_images) == Len(images) >= max_images

\* Variant of is_image: the two image hosts are not looked for.
is_image_extension_only(url) ==
    \E e \in 1..Len(image_extensions) : EndsWith(url, image_extensions[e])

\* is_image, for a url that is a str
is_image(url) ==
    \/ \E e \in 1..Len(image_extensions) : EndsWith(url, image_extensions[e])
    \/ Contains(url, host_reddit)
    \/ Contains(url, host_imgur)

\* any(kw in title for kw in exclude), title already lower-cased
is_excluded(title) == \E k \in 1..Len(exclude) : Contains(title, exclude[k])

\* The body of the loop over posts for one post: "raise" when a statement of
\* the body raises, "skip" for either continue, "append" with the record.
\* The record keeps the fields url, title, platform, score; the fields
\* author, author_url, timestamp and source_url take no part in any later
\* step and are left out.
reddit_post(post) ==
    IF ~IsObj(post) THEN [step |-> "raise"]
    ELSE IF ~IsObj(Get(post.v, "data", JObj(EmptyDict))) THEN [step |-> "raise"]
    ELSE LET post_data == Get(post.v, "data", JObj(EmptyDict)).v
             url == Get(post_data, "url", JStr(<<>>))
             title == Get(post_data, "title", JStr(<<>>))
             created_utc == Get(post_data, "created_utc", JInt(0))
         IN  IF ~IsStr(url) THEN [step |-> "raise"]
             ELSE IF ~is_image(url.v) THEN [step |-> "skip"]
             ELSE IF ~IsStr(title) THEN [step |-> "raise"]
             ELSE IF is_excluded(Lower(title.v)) THEN [step |-> "skip"]
             ELSE IF ~IsInt(created_utc) THEN [step |-> "raise"]
             ELSE [step |-> "append",
                   rec |-> [url |-> url,
                            title |-> GetNone(post_data, "title"),
                            platform |-> "Reddit",
                            score |-> Get(post_data, "score", JInt(0))]]

\* for post in posts: from position k with the list images; accepted collects
\* the positions whose record was appended.
RECURSIVE reddit_posts(_, _, _, _, _)
reddit_posts(images, accepted, posts, k, max_images) ==
    IF k > Len(posts) \/ CapReached(images, max_images)
    THEN [images |-> images, accepted |-> accepted, failure |-> "none"]
    ELSE LET r == reddit_post(posts[k])
         IN  CASE r.step = "raise" ->
                    [images |-> images, accepted |-> accepted, failure |-> "exception"]
               [] r.step = "skip" ->
                    reddit_posts(images, accepted, posts, k + 1, max_images)
               [] r.step = "append" ->
                    reddit_posts(Append(images, r.rec), accepted \cup {k},
                                 posts, k + 1, max_images)

\* The try block for one sub-community, given the response to its request.
reddit_subreddit(images, response, max_images) ==
    IF response.transport_error
    THEN [images |-> images, accepted |-> {}, failure |-> "exception"]
    ELSE IF response.status_code # 200
    THEN [images |-> images, accepted |-> {}, failure |-> "status"]
    ELSE IF ~response.json_ok
    THEN [images |-> images, accepted |-> {}, failure |-> "exception"]
    ELSE reddit_posts(images, {}, response.children, 1, max_images)

\* Variant of next_subreddit: the except clause leaves the loop (break).
next_subreddit_break(sub, failure) ==
    IF failure = "exception" THEN Len(subreddits) + 1 ELSE sub + 1

\* The sub-community visited after the current one: both continue statements
\* and the normal end of the body go on with the next element of the list.
next_subreddit(sub, failure) == sub + 1

\* ------------------------------------------------ discovery-site adapter
\* The outcome of an expression: it raised, or it has a value.
Raised == [raise |-> TRUE]
Value(x) == [raise |-> FALSE, value |-> x]

\* pin.get('images', {}).get(size, {}).get('url')
pin_size_url(pin_data, size) ==
    LET imgs == Get(pin_data, "images", JObj(EmptyDict))
    IN  IF ~IsObj(imgs) THEN Raised
        ELSE LET entry == Get(imgs.v, size, JObj(EmptyDict))
             IN  IF ~IsObj(entry) THEN Raised
                 ELSE Value(GetNone(entry.v, "url"))

\* image_url: orig or 736x or 564x, evaluated left to right
pin_image_url(pin_data) ==
    LET a == pin_size_url(pin_data, "orig")
        b == pin_size_url(pin_data, "736x")
        c == pin_size_url(pin_data, "564x")
    IN  IF a.raise THEN Raised
        ELSE IF Truthy(a.value) THEN a
        ELSE IF b.raise THEN Raised
        ELSE IF Truthy(b.value) THEN b
        ELSE c

\* pin.get('aggregated_pin_data', {}).get('aggregated_stats', {}).get('saves', 0)
pin_saves(pin_data) ==
    LET agg == Get(pin_data, "aggregated_pin_data", JObj(EmptyDict))
    IN  IF ~IsObj(agg) THEN Raised
        ELSE LET stats == Get(agg.v, "aggregated_stats", JObj(EmptyDict))
             IN  IF ~IsObj(stats) THEN Raised
                 ELSE Value(Get(stats.v, "saves", JInt(0)))

\* pin.get('title') or pin.get('grid_title')
pin_title(pin_data) ==
    IF Truthy(GetNone(pin_data, "title"))
    THEN GetNone(pin_data, "title")
    ELSE GetNone(pin_data, "grid_title")

\* pin.get('pinner', {}).get(field)
pin_pinner(pin_data, field) ==
    LET pinner == Get(pin_data, "pinner", JObj(EmptyDict))
    IN  IF ~IsObj(pinner) THEN Raised ELSE Value(GetNone(pinner.v, field))

\* The body of the loop over pins for one pin.
\* The record keeps the fields url, title, author, author_url, platform,
\* score; the field source_url is left out.
pinterest_pin(pin) ==
    IF ~IsObj(pin) THEN [step |-> "raise"]
    ELSE LET image_url == pin_image_url(pin.v)
             author == pin_pinner(pin.v, "username")
             author_url == pin_pinner(pin.v, "profile_url")
             saves == pin_saves(pin.v)
         IN  IF image_url.raise THEN [step |-> "raise"]
             ELSE IF ~Truthy(image_url.value) THEN [step |-> "skip"]
             ELSE IF author.raise \/ author_url.raise THEN [step |-> "raise"]
             ELSE IF saves.raise THEN [step |-> "raise"]
             ELSE [step |-> "append",
                   rec |-> [url |-> image_url.value,
                            title |-> pin_title(pin.v),
                            author |-> author.value,
                            author_url |-> author_url.value,
                            platform |-> "Pinterest",
                            score |-> saves.value]]

\* for pin in pins: from position k of the already truncated list
RECURSIVE pinterest_pins(_, _, _, _)
pinterest_pins(images, accepted, pins, k) ==
    IF k > Len(pins)
    THEN [images |-> images, accepted |-> accepted, failure |-> "none"]
    ELSE LET r == pinterest_pin(pins[k])
         IN  CASE r.step = "raise" ->
                    [images |-> images, accepted |-> accepted, failure |-> "exception"]
               [] r.step = "skip" ->
                    pinterest_pins(images, accepted, pins, k + 1)
               [] r.step = "append" ->
                    pinterest_pins(Append(images, r.rec), accepted \cup {k}, pins, k + 1)

\* scrape_pinterest_images, given the response to its one request
scrape_pinterest_images(response, max_images) ==
    IF response.transport_error
    THEN [images |-> <<>>, accepted |-> {}, failure |-> "exception"]
    ELSE IF response.status_code # 200
    THEN [images |-> <<>>, accepted |-> {}, failure |-> "status"]
    ELSE IF ~response.json_ok
    THEN [images |-> <<>>, accepted |-> {}, failure |-> "exception"]
    ELSE pinterest_pins(<<>>, {}, Slice(response.children, max_images), 1)

\* ----------------------------------------------------------- feed adapter
\* author after lines 205-207: for a str with both parentheses the text in
\* the first pair of them, else the str; "in" raises for None and numbers,
\* and split raises for a dict that has both keys.
flickr_author(item_data) ==
    LET author == Get(item_data, "author", JStr(<<>>))
    IN  CASE IsStr(author) ->
                 IF Contains(author.v, <<"(">>) /\ Contains(author.v, <<")">>)
                 THEN Value(JStr(SplitFirst(SplitSecond(author.v, "("), ")")))
                 ELSE Value(author)
          [] IsObj(author) ->
                 IF "(" \in DOMAIN author.v /\ ")" \in DOMAIN author.v
                 THEN Raised
                 ELSE Value(author)
          [] OTHER -> Raised

\* The body of the loop over feed items for one item.
\* The record keeps the fields url, title, author, platform; it has no score
\* key.  The fields author_url, timestamp and source_url are left out.
flickr_item(item) ==
    IF ~IsObj(item) THEN [step |-> "raise"]
    ELSE LET media == Get(item.v, "media", JObj(EmptyDict))
         IN  IF ~IsObj(media) THEN [step |-> "raise"]
             ELSE LET m == Get(media.v, "m", JStr(<<>>))
                  IN  IF ~IsStr(m) THEN [step |-> "raise"]
                      ELSE LET image_url == Replace(m.v, suffix_m, suffix_b)
                               author == flickr_author(item.v)
                           IN  IF image_url = <<>> THEN [step |-> "skip"]
                               ELSE IF author.raise THEN [step |-> "raise"]
                               ELSE [step |-> "append",
                                     rec |-> [url |-> JStr(image_url),
                                              title |-> GetNone(item.v, "title"),
                                              author |-> author.value,
                                              platform |-> "Flickr"]]

\* for item in items: from position k of the already truncated list
RECURSIVE flickr_items(_, _, _, _)
flickr_items(images, accepted, items, k) ==
    IF k > Len(items)
    THEN [images |-> images, accepted |-> accepted, failure |-> "none"]
    ELSE LET r == flickr_item(items[k])
         IN  CASE r.step = "raise" ->
                    [images |-> images, accepted |-> accepted, failure |-> "exception"]
               [] r.step = "skip" ->
                    flickr_items(images, accepted, items, k + 1)
               [] r.step = "append" ->
                    flickr_items(Append(images, r.rec), accepted \cup {k}, items, k + 1)

\* scrape_flickr_images, given the response to its one request
scrape_flickr_images(response, max_images) ==
    IF response.transport_error
    THEN [images |-> <<>>, accepted |-> {}, failure |-> "exception"]
    ELSE IF response.status_code # 200
    THEN [images |-> <<>>, accepted |-> {}, failure |-> "status"]
    ELSE IF ~response.json_ok
    THEN [images |-> <<>>, accepted |-> {}, failure |-> "exception"]
    ELSE flickr_items(<<>>, {}, Slice(response.children, max_images), 1)

\* -------------------------------------------------------------- aggregator
\* Variant of extend: the result is assigned instead of appended.
extend_replace(list, result) == result

\* all_images.extend(result)
extend(list, result) == list \o result

\* key=lambda x: x.get('score', 0)
sort_key(x) == Get(x, "score", JInt(0))

\* a < b for two keys that can be ordered: two numbers or two str
key_less(a, b) == IF IsInt(a) THEN a.v < b.v ELSE StrLess(a.v, b.v)

\* The sort raises TypeError when it compares two keys that cannot be
\* ordered: numbers are ordered with numbers and str with str, nothing else
\* is.  In a list of two or more records every record is compared.
sort_raises(records) ==
    /\ Len(records) >= 2
    /\ ~ \/ \A i \in 1..Len(records) : IsInt(sort_key(records[i]))
         \/ \A i \in 1..Len(records) : IsStr(sort_key(records[i]))

\* Variant of sort_insert: x goes in front of the records with an equal key.
RECURSIVE sort_insert_unstable(_, _)
sort_insert_unstable(sorted, x) ==
    IF sorted = <<>> THEN <<x>>
    ELSE IF ~key_less(sort_key(x), sort_key(Head(sorted)))
         THEN <<x>> \o sorted
         ELSE <<Head(sorted)>> \o sort_insert_unstable(Tail(sorted), x)

\* Insert x behind every record whose key is not smaller than its own.
RECURSIVE sort_insert(_, _)
sort_insert(sorted, x) ==
    IF sorted = <<>> THEN <<x>>
    ELSE IF key_less(sort_key(Head(sorted)), sort_key(x))
         THEN <<x>> \o sorted
         ELSE <<Head(sorted)>> \o sort_insert(Tail(sorted), x)

RECURSIVE sort_from(_, _, _)
sort_from(sorted, records, k) ==
    IF k > Len(records) THEN sorted
    ELSE sort_from(sort_insert(sorted, records[k]), records, k + 1)

\* list.sort(key=..., reverse=True) on a list whose keys are comparable
sort_by_score(records) ==
    IF Len(records) < 2 THEN records ELSE sort_from(<<>>, records, 1)

\* ---------------------------------------------------- upstream responses
\* Strings used in the responses.
url_kyoto == <<"k", ".", "j", "p", "g">>
url_meme == <<"m", ".", "p", "n", "g">>
url_redd == <<"h", "t", "t", "p", "s", ":", "/", "/", "i", ".", "r", "e", "d", "d", ".", "i", "t", "/", "r">>
url_page == <<"p", ".", "h", "t", "m", "l">>
url_null == <<"n", ".", "w", "e", "b", "p">>
url_time == <<"t", ".", "g", "i", "f">>
title_kyoto == <<"S", "u", "n", "s", "e", "t", " ", "i", "n", " ", "K", "y", "o", "t", "o">>
title_meme == <<"F", "u", "n", "n", "y", " ", "m", "e", "m", "e", " ", "c", "o", "m", "p", "i", "l", "a", "t", "i", "o", "n">>
title_page == <<"K", "y", "o", "t", "o">>
url_lookalike == <<"h", "t", "t", "p", "s", ":", "/", "/", "x", ".", "i", "o", "/", "i", ".", "i", "m", "g", "u", "r", ".", "c", "o", "m">>
url_selfie == <<"s", ".", "j", "p", "e", "g">>
title_selfie == <<"M", "y", " ", "F", "a", "c", "e">>
url_pin564 == <<"s", ".", "j", "p", "g">>
url_pin736 == <<"l", ".", "j", "p", "g">>
url_feed_m == <<"f", "_", "m", ".", "j", "p", "g">>
url_feed_x == <<"x", ".", "j", "p", "g">>
name_jane == <<"j", "a", "n", "e">>
author_feed == <<"n", "o", "b", "o", "d", "y", "@", "f", "l", "i", "c", "k", "r", ".", "c", "o", "m", " ", "(", "j", "a", "n", "e", ")">>

\* The query argument.
query == "Kyoto"

\* Children of a forum search response: an image post with upvotes, a post
\* with an excluded title, a post that has only a hosted-image url, a post
\* whose url is no image, a post whose score is null, a post whose
\* created_utc is null, a post whose url names an image host in its path
\* only, a post whose title is excluded once lower-cased, a post whose url
\* is a number, and a child that is not an object.
post_kyoto ==
    JObj([data |-> JObj([url |-> JStr(url_kyoto), title |-> JStr(title_kyoto),
                    score |-> JInt(2), created_utc |-> JInt(0)])])
post_meme ==
    JObj([data |-> JObj([url |-> JStr(url_meme), title |-> JStr(title_meme),
                   score |-> JInt(1), created_utc |-> JInt(0)])])
post_redd ==
    JObj([data |-> JObj([url |-> JStr(url_redd)])])
post_page ==
    JObj([data |-> JObj([url |-> JStr(url_page), title |-> JStr(title_page),
                   score |-> JInt(1), created_utc |-> JInt(0)])])
post_nullscore ==
    JObj([data |-> JObj([url |-> JStr(url_null), title |-> JStr(title_page),
                        score |-> Null, created_utc |-> JInt(0)])])
post_badtime ==
    JObj([data |-> JObj([url |-> JStr(url_time), title |-> JStr(title_page),
                      score |-> JInt(1), created_utc |-> Null])])
post_lookalike ==
    JObj([data |-> JObj([url |-> JStr(url_lookalike), title |-> JStr(title_page),
                        score |-> JInt(1), created_utc |-> JInt(0)])])
post_selfie ==
    JObj([data |-> JObj([url |-> JStr(url_selfie), title |-> JStr(title_selfie),
                     score |-> JInt(2), created_utc |-> JInt(0)])])
post_numurl ==
    JObj([data |-> JObj([url |-> JInt(5), title |-> JStr(title_page),
                         score |-> JInt(1), created_utc |-> JInt(0)])])
PostPool == {post_kyoto, post_meme, post_redd, post_page, post_nullscore,
             post_badtime, post_lookalike, post_selfie, post_numurl, Null}

\* Results of a discovery-site response: a pin with an original image (the
\* same url as post_kyoto) and saves, a pin with only the 564x image and no
\* statistics, a pin without any image, a pin whose saves is null, a pin
\* whose pinner is null, two pins whose saves are str, a pin whose original
\* image url is a number, and a result that is not an object.
pin_orig == JObj([images |-> JObj([orig |-> JObj([url |-> JStr(url_kyoto)]),
                                   564x |-> JObj([url |-> JStr(url_pin564)])]),
                  title |-> JStr(title_kyoto),
                  pinner |-> JObj([username |-> JStr(name_jane)]),
                  aggregated_pin_data |-> JObj([aggregated_stats |-> JObj([saves |-> JInt(2)])])])
pin_564 == JObj([images |-> JObj([orig |-> JObj([url |-> Null]),
                                  564x |-> JObj([url |-> JStr(url_pin564)])]),
                 grid_title |-> JStr(title_page)])
pin_noimage == JObj([images |-> JObj([736x |-> JObj([url |-> JStr(<<>>)])]),
                     title |-> JStr(title_page)])
pin_nullsaves == JObj([images |-> JObj([736x |-> JObj([url |-> JStr(url_pin736)])]),
                       aggregated_pin_data |-> JObj([aggregated_stats |-> JObj([saves |-> Null])])])
pin_nullpinner == JObj([images |-> JObj([orig |-> JObj([url |-> JStr(url_pin736)])]),
                        pinner |-> Null])
pin_saves_a == JObj([images |-> JObj([orig |-> JObj([url |-> JStr(url_pin564)])]),
                     aggregated_pin_data |-> JObj([aggregated_stats |-> JObj([saves |-> JStr(<<"a">>)])])])
pin_saves_b == JObj([images |-> JObj([orig |-> JObj([url |-> JStr(url_pin736)])]),
                     aggregated_pin_data |-> JObj([aggregated_stats |-> JObj([saves |-> JStr(<<"b">>)])])])
pin_numurl == JObj([images |-> JObj([orig |-> JObj([url |-> JInt(5)])]),
                    title |-> JStr(title_page)])
PinPool == {pin_orig, pin_564, pin_noimage, pin_nullsaves, pin_nullpinner,
            pin_saves_a, pin_saves_b, pin_numurl, Null}

\* Items of a feed response: an item with a medium-size url and an author in
\* the format of the feed, an item with another url, an item without media,
\* an item whose media url is null, and an item whose author is null.
item_medium == JObj([media |-> JObj([m |-> JStr(url_feed_m)]), title |-> JStr(title_kyoto),
                     author |-> JStr(author_feed)])
item_other == JObj([media |-> JObj([m |-> JStr(url_feed_x)])])
item_nomedia == JObj([title |-> JStr(title_page)])
item_nullmedia == JObj([media |-> JObj([m |-> Null])])
item_nullauthor == JObj([media |-> JObj([m |-> JStr(url_feed_x)]), author |-> Null])
ItemPool == {item_medium, item_other, item_nomedia, item_nullmedia, item_nullauthor}

\* The lists of at most MaxEntries elements of pool.
Lists(pool) == UNION {[1..n -> pool] : n \in 0..MaxEntries}

\* What requests.get and response.json() can yield: a transport error, a
\* status other than 200, a body that is not the expected JSON, or the
\* parsed list of entries.
TransportError == [transport_error |-> TRUE, status_code |-> 0, json_ok |-> FALSE, children |-> <<>>]
HttpError == [transport_error |-> FALSE, status_code |-> 503, json_ok |-> FALSE, children |-> <<>>]
BadJson == [transport_error |-> FALSE, status_code |-> 200, json_ok |-> FALSE, children |-> <<>>]
Ok(children) == [transport_error |-> FALSE, status_code |-> 200, json_ok |-> TRUE, children |-> children]
Responses(pool) == {TransportError, HttpError, BadJson} \cup {Ok(c) : c \in Lists(pool)}

\* ------------------------------------------------------------------- state
VARIABLES
    platforms,    \* args.platforms
    max_images,   \* args.max_images
    pc,           \* position in main
    sub,          \* position of the loop over subreddits (1-based)
    images,       \* the list images of the adapter that ran last
    all_images,   \* all_images of main
    requests,     \* the HTTP requests issued so far, in order
    calls,        \* the adapters invoked so far, in order
    returned,     \* what each adapter returned
    unit,         \* the unit of work handled last and how it ended
    failures,     \* the number of failure diagnostics printed on stderr
    output        \* the document printed on stdout

vars == <<platforms, max_images, pc, sub, images, all_images, requests, calls,
          returned, unit, failures, output>>

NoUnit == [adapter |-> "none"]
NoOutput == [emitted |-> FALSE]

Init ==
    /\ platforms \in (SUBSET platform_choices) \ {{}}
    /\ max_images \in -1..MaxCap
    /\ pc = "main"
    /\ sub = 1
    /\ images = <<>>
    /\ all_images = <<>>
    /\ requests = <<>>
    /\ calls = <<>>
    /\ returned = [reddit |-> <<>>, pinterest |-> <<>>, flickr |-> <<>>]
    /\ unit = NoUnit
    /\ failures = 0
    /\ output = NoOutput

\* if 'reddit' in args.platforms: the adapter is entered
RedditCall ==
    /\ pc = "main"
    /\ "reddit" \in platforms
    /\ pc' = "reddit"
    /\ sub' = 1
    /\ images' = <<>>
    /\ calls' = Append(calls, "reddit")
    /\ UNCHANGED <<platforms, max_images, all_images, requests, returned, unit, failures, output>>

\* 'reddit' is not enabled
RedditSkip ==
    /\ pc = "main"
    /\ "reddit" \notin platforms
    /\ pc' = "pinterest"
    /\ UNCHANGED <<platforms, max_images, sub, images, all_images, requests, calls,
                   returned, unit, failures, output>>

\* The body of the loop over subreddits for one sub-community below the cap:
\* the request and the handling of its response, up to the end of the try
\* statement.
RedditSubreddit ==
    /\ pc = "reddit"
    /\ sub <= Len(subreddits)
    /\ ~CapReached(images, max_images)
    /\ \E response \in Responses(PostPool) :
          LET r == reddit_subreddit(images, response, max_images)
          IN  /\ images' = r.images
              /\ unit' = [adapter |-> "reddit", subreddit |-> subreddits[sub],
                          response |-> response, before |-> Len(images),
                          accepted |-> r.accepted, failure |-> r.failure]
              /\ failures' = IF r.failure = "none" THEN failures ELSE failures + 1
    /\ requests' = Append(requests, subreddits[sub])
    /\ pc' = "reddit_next"
    /\ UNCHANGED <<platforms, max_images, sub, all_images, calls, returned, output>>

\* continue, or the end of the loop body: back to the head of the loop
RedditContinue ==
    /\ pc = "reddit_next"
    /\ sub' = next_subreddit(sub, unit.failure)
    /\ unit' = NoUnit
    /\ pc' = "reddit"
    /\ UNCHANGED <<platforms, max_images, images, all_images, requests, calls,
                   returned, failures, output>>

\* The loop over subreddits ends (list exhausted, or break at the cap), the
\* adapter returns images and main extends all_images.
RedditReturn ==
    /\ pc = "reddit"
    /\ sub > Len(subreddits) \/ CapReached(images, max_images)
    /\ all_images' = extend(all_images, images)
    /\ returned' = [returned EXCEPT !.reddit = images]
    /\ images' = <<>>
    /\ pc' = "pinterest"
    /\ UNCHANGED <<platforms, max_images, sub, requests, calls, unit, failures, output>>

\* if 'pinterest' in args.platforms: the body of the adapter, its one request
\* and the handling of the response
PinterestCall ==
    /\ pc = "pinterest"
    /\ "pinterest" \in platforms
    /\ \E response \in Responses(PinPool) :
          LET r == scrape_pinterest_images(response, max_images)
          IN  /\ images' = r.images
              /\ unit' = [adapter |-> "pinterest", subreddit |-> "",
                          response |-> response, before |-> 0,
                          accepted |-> r.accepted, failure |-> r.failure]
              /\ failures' = IF r.failure = "none" THEN failures ELSE failures + 1
    /\ requests' = Append(requests, "pinterest")
    /\ calls' = Append(calls, "pinterest")
    /\ pc' = "pinterest_return"
    /\ UNCHANGED <<platforms, max_images, sub, all_images, returned, output>>

\* return images, and main extends all_images
PinterestReturn ==
    /\ pc = "pinterest_return"
    /\ all_images' = extend(all_images, images)
    /\ returned' = [returned EXCEPT !.pinterest = images]
    /\ images' = <<>>
    /\ unit' = NoUnit
    /\ pc' = "flickr"
    /\ UNCHANGED <<platforms, max_images, sub, requests, calls, failures, output>>

\* 'pinterest' is not enabled
PinterestSkip ==
    /\ pc = "pinterest"
    /\ "pinterest" \notin platforms
    /\ pc' = "flickr"
    /\ UNCHANGED <<platforms, max_images, sub, images, all_images, requests, calls,
                   returned, unit, failures, output>>

\* if 'flickr' in args.platforms: the body of the adapter, its one request and
\* the handling of the response
FlickrCall ==
    /\ pc = "flickr"
    /\ "flickr" \in platforms
    /\ \E response \in Responses(ItemPool) :
          LET r == scrape_flickr_images(response, max_images)
          IN  /\ images' = r.images
              /\ unit' = [adapter |-> "flickr", subreddit |-> "",
                          response |-> response, before |-> 0,
                          accepted |-> r.accepted, failure |-> r.failure]
              /\ failures' = IF r.failure = "none" THEN failures ELSE failures + 1
    /\ requests' = Append(requests, "flickr")
    /\ calls' = Append(calls, "flickr")
    /\ pc' = "flickr_return"
    /\ UNCHANGED <<platforms, max_images, sub, all_images, returned, output>>

\* return images, and main extends all_images
FlickrReturn ==
    /\ pc = "flickr_return"
    /\ all_images' = extend(all_images, images)
    /\ returned' = [returned EXCEPT !.flickr = images]
    /\ images' = <<>>
    /\ unit' = NoUnit
    /\ pc' = "sort"
    /\ UNCHANGED <<platforms, max_images, sub, requests, calls, failures, output>>

\* 'flickr' is not enabled
FlickrSkip ==
    /\ pc = "flickr"
    /\ "flickr" \notin platforms
    /\ pc' = "sort"
    /\ UNCHANGED <<platforms, max_images, sub, images, all_images, requests, calls,
                   returned, unit, failures, output>>

\* all_images.sort(...) and the print of the document
SortAndEmit ==
    /\ pc = "sort"
    /\ ~sort_raises(all_images)
    /\ all_images' = sort_by_score(all_images)
    /\ output' = [emitted |-> TRUE, query |-> query,
                  total_images |-> Len(all_images'), images |-> all_images']
    /\ pc' = "done"
    /\ UNCHANGED <<platforms, max_images, sub, images, requests, calls, returned, unit, failures>>

\* all_images.sort(...) raises TypeError, which leaves main
SortRaises ==
    /\ pc = "sort"
    /\ sort_raises(all_images)
    /\ pc' = "failed"
    /\ UNCHANGED <<platforms, max_images, sub, images, all_images, requests, calls,
                   returned, unit, failures, output>>

Next ==
    \/ RedditCall
    \/ RedditSkip
    \/ RedditSubreddit
    \/ RedditContinue
    \/ RedditReturn
    \/ PinterestCall
    \/ PinterestReturn
    \/ PinterestSkip
    \/ FlickrCall
    \/ FlickrReturn
    \/ FlickrSkip
    \/ SortAndEmit
    \/ SortRaises

Spec == Init /\ [][Next]_vars

\* ------------------------------------------------------------- properties
Range(seq) == {seq[i] : i \in 1..Len(seq)}
Count(seq, x) == Cardinality({i \in 1..Len(seq) : seq[i] = x})

\* The records in the order the adapters emitted them.
Emitted == returned.reddit \o returned.pinterest \o returned.flickr

\* The score a record counts with: its score, the number 0 without one.
ScoreOf(r) == IF "score" \in DOMAIN r THEN r.score ELSE JInt(0)

\* Score a is below score b: as numbers, or as str in dictionary order.
ScoreBelow(a, b) ==
    \/ a.t = "int" /\ b.t = "int" /\ a.v < b.v
    \/ a.t = "str" /\ b.t = "str" /\ StrLess(a.v, b.v)

\* The records of seq that count with score v, in their order in seq.
WithScore(seq, v) == SelectSeq(seq, LAMBDA r : ScoreOf(r) = v)

\* The requests of the forum adapter, in the order they were issued.
RedditRequests == SelectSeq(requests, LAMBDA q : q \in Range(subreddits))

\* The enabled adapters in the fixed order of main.
EnabledInOrder ==
    SelectSeq(<<"reddit", "pinterest", "flickr">>, LAMBDA a : a \in platforms)

\* C1: the emitted images are in descending order of score (no score counts
\* as 0), and the records of equal score are in the order in which the
\* adapters emitted them (forum, discovery site, feed; within an adapter in
\* append order).
C1_SortedStable ==
    output.emitted =>
        LET out == output.images
        IN  /\ \A i, j \in 1..Len(out) : i < j => ~ScoreBelow(ScoreOf(out[i]), ScoreOf(out[j]))
            /\ \A v \in {ScoreOf(r) : r \in Range(out) \cup Range(Emitted)} :
                   WithScore(out, v) = WithScore(Emitted, v)

\* Witness of C1: a document was emitted whose order differs from the
\* emission order and that holds two different records of equal score.
C1_Witness ==
    /\ output.emitted
    /\ output.images # Emitted
    /\ \E i, j \in 1..Len(output.images) :
          /\ i < j
          /\ ScoreOf(output.images[i]) = ScoreOf(output.images[j])
          /\ output.images[i] # output.images[j]

\* C2: main never fails: the merge-and-sort step completes for every
\* response of the upstream endpoints.
C2_MainNeverFails == pc # "failed"

\* C3: a failure in one sub-community does not stop the loop of the forum
\* adapter: the sub-communities are visited one by one whatever the outcome,
\* the records of a unit are in the list once it was handled, the adapter
\* returns only with the list exhausted or the cap reached, and every enabled
\* adapter has been invoked when main sorts.
C3_FailureDoesNotStopLoop ==
    /\ pc = "reddit" => Len(requests) = sub - 1
    /\ pc = "reddit_next" =>
          /\ Len(requests) = sub
          /\ Len(images) = unit.before + Cardinality(unit.accepted)
    /\ ("reddit" \in platforms /\ pc \notin {"main", "reddit", "reddit_next"}) =>
          \/ Len(RedditRequests) = Len(subreddits)
          \/ Len(returned.reddit) >= max_images
    /\ pc \in {"sort", "done", "failed"} => calls = EnabledInOrder

\* Witness of C3: after a sub-community failed, a later one was queried and
\* its records were appended.
C3_Witness ==
    /\ pc = "reddit_next"
    /\ failures > 0
    /\ unit.failure = "none"
    /\ unit.accepted # {}
    /\ Len(images) > unit.before

\* C4: a unit of work that ended in an error contributes no record: the list
\* of the adapter is as long as it was before the unit (empty for the two
\* single-request adapters).
C4_FailedUnitContributesNothing ==
    (unit.adapter # "none" /\ unit.failure # "none") => Len(images) = unit.before

\* C5: the emitted images are the records the adapters returned, each as many
\* times as it was returned, and total_images is their number; without any
\* record the document has total_images 0 and no images.
C5_OnlyReorders ==
    output.emitted =>
        /\ output.total_images = Len(output.images)
        /\ Len(output.images) = Len(Emitted)
        /\ \A r \in Range(output.images) \cup Range(Emitted) :
               Count(output.images, r) = Count(Emitted, r)
        /\ Emitted = <<>> => (output.total_images = 0 /\ output.images = <<>>)

\* Witness of C5: a document was emitted, in another order than the emission
\* order, with the same url from two sources.
C5_Witness ==
    /\ output.emitted
    /\ output.images # Emitted
    /\ \E i, j \in 1..Len(output.images) :
          /\ output.images[i].url = output.images[j].url
          /\ output.images[i].platform # output.images[j].platform

\* An entry of a response from which an image url can be derived.
C6_HasUsableUrl(adapter, entry) ==
    /\ entry.t = "obj"
    /\ CASE adapter = "reddit" ->
                /\ "data" \in DOMAIN entry.v
                /\ entry.v.data.t = "obj"
                /\ "url" \in DOMAIN entry.v.data.v
                /\ entry.v.data.v.url.t = "str"
                /\ entry.v.data.v.url.v # <<>>
         [] adapter = "pinterest" ->
                /\ "images" \in DOMAIN entry.v
                /\ entry.v.images.t = "obj"
                /\ \E size \in {"orig", "736x", "564x"} :
                      /\ size \in DOMAIN entry.v.images.v
                      /\ entry.v.images.v[size].t = "obj"
                      /\ "url" \in DOMAIN entry.v.images.v[size].v
                      /\ entry.v.images.v[size].v.url.t = "str"
                      /\ entry.v.images.v[size].v.url.v # <<>>
         [] adapter = "flickr" ->
                /\ "media" \in DOMAIN entry.v
                /\ entry.v.media.t = "obj"
                /\ "m" \in DOMAIN entry.v.media.v
                /\ entry.v.media.v.m.t = "str"
                /\ entry.v.media.v.m.v # <<>>

\* C6: every record of every adapter has a non-empty url and one of the
\* three platform names, and no record comes from an entry without a usable
\* image url.
C6_RecordsHaveUrlAndPlatform ==
    /\ \A r \in Range(images) \cup Range(all_images) :
          /\ r.url.t = "str"
          /\ r.url.v # <<>>
          /\ r.platform \in {"Reddit", "Pinterest", "Flickr"}
    /\ unit.adapter # "none" =>
          \A k \in unit.accepted :
              C6_HasUsableUrl(unit.adapter, unit.response.children[k])

\* C7: every record of the emitted document has an integer score, 0 for the
\* records of the feed source.
C7_EveryRecordHasIntegerScore ==
    output.emitted =>
        \A i \in 1..Len(output.images) :
            /\ "score" \in DOMAIN output.images[i]
            /\ output.images[i].score.t = "int"
            /\ output.images[i].platform = "Flickr" => output.images[i].score.v = 0

\* C8: the forum adapter requests the sub-communities in list order, each at
\* most once, every request is issued with the running total below the cap,
\* and with a cap of 0 or less there is no request.
C8_RequestsInOrderBelowCap ==
    /\ Len(RedditRequests) <= Len(subreddits)
    /\ RedditRequests = SubSeq(subreddits, 1, Len(RedditRequests))
    /\ pc = "reddit_next" => unit.before < max_images
    /\ max_images <= 0 => RedditRequests = <<>>

\* Witness of C8: the adapter returned at the cap before the list of
\* sub-communities was exhausted, after more than one request.
C8_Witness ==
    /\ pc = "pinterest"
    /\ "reddit" \in platforms
    /\ Len(returned.reddit) = max_images
    /\ Len(RedditRequests) > 1
    /\ Len(RedditRequests) < Len(subreddits)

\* C9: every adapter returns at most max(max_images, 0) records.
C9_AtMostCap ==
    \A a \in {"reddit", "pinterest", "flickr"} :
        Len(returned[a]) <= (IF max_images > 0 THEN max_images ELSE 0)

\* The url without its scheme.
C10_AfterScheme(url) ==
    LET marks == {i \in 1..(Len(url) - 2) : SubSeq(url, i, i + 2) = <<":", "/", "/">>}
    IN  IF marks = {} THEN url
        ELSE LET first == CHOOSE i \in marks : \A j \in marks : i <= j
             IN  SubSeq(url, first + 3, Len(url))

\* The host of a url: what follows the scheme, up to the first slash.
C10_HostPart(url) ==
    LET rest == C10_AfterScheme(url)
        slashes == {i \in 1..Len(rest) : rest[i] = "/"}
    IN  IF slashes = {} THEN rest
        ELSE SubSeq(rest, 1, (CHOOSE i \in slashes : \A j \in slashes : i <= j) - 1)

\* The child is an object with an object under the key data.
C10_HasData(post) ==
    /\ post.t = "obj"
    /\ "data" \in DOMAIN post.v
    /\ post.v.data.t = "obj"

\* The post has a string under the key field.
C10_HasString(post, field) ==
    /\ C10_HasData(post)
    /\ field \in DOMAIN post.v.data.v
    /\ post.v.data.v[field].t = "str"

\* The post has a url that ends with an image extension.
C10_HasImageExtension(post) ==
    /\ C10_HasString(post, "url")
    /\ \E ext \in {ext_jpg, ext_jpeg, ext_png, ext_gif, ext_webp} :
          EndsWith(post.v.data.v.url.v, ext)

\* The post has a url on one of the two image hosts.
C10_OnImageHost(post) ==
    /\ C10_HasString(post, "url")
    /\ C10_HostPart(post.v.data.v.url.v) \in {host_reddit, host_imgur}

\* The post has a url in which the name of one of the two image hosts occurs.
C10_NamesImageHost(post) ==
    /\ C10_HasString(post, "url")
    /\ \E host \in {host_reddit, host_imgur} : Contains(post.v.data.v.url.v, host)

\* The post has a title whose lower-cased text contains an exclusion keyword.
C10_TitleExcluded(post) ==
    /\ C10_HasString(post, "title")
    /\ \E kw \in {kw_meme, kw_funny, kw_joke, kw_selfie, kw_myface} :
          Contains(Lower(post.v.data.v.title.v), kw)

\* The post has something else than a value of kind under the key field.
C10_WrongKind(post, field, kind) ==
    /\ C10_HasData(post)
    /\ field \in DOMAIN post.v.data.v
    /\ post.v.data.v[field].t # kind

\* Handling the post raises an error: it is no object or its data is none,
\* its url is no string, or it is an image post whose title is no string, or
\* an image post with an admissible title whose created_utc is no number.
C10_Malformed(post) ==
    \/ post.t # "obj"
    \/ post.t = "obj" /\ "data" \in DOMAIN post.v /\ post.v.data.t # "obj"
    \/ C10_WrongKind(post, "url", "str")
    \/ /\ C10_HasImageExtension(post) \/ C10_NamesImageHost(post)
       /\ \/ C10_WrongKind(post, "title", "str")
          \/ ~C10_TitleExcluded(post) /\ C10_WrongKind(post, "created_utc", "int")

\* The running total is below the cap when post k of the unit is reached.
C10_BelowCapAt(k) ==
    unit.before + Cardinality({j \in unit.accepted : j < k}) < max_images

\* The record appended for the accepted post k of the unit.
C10_RecordOf(k) ==
    images[unit.before + Cardinality({j \in unit.accepted : j <= k})]

\* The upvote field of a post, 0 when it has none.
C10_Upvotes(post) ==
    IF "score" \in DOMAIN post.v.data.v THEN post.v.data.v.score ELSE JInt(0)

\* The forum adapter has just handled a response that was received and parsed.
C10_UnitParsed ==
    /\ pc = "reddit_next"
    /\ ~unit.response.transport_error
    /\ unit.response.status_code = 200
    /\ unit.response.json_ok

\* C10 as stated: a post is emitted if and only if the cap is not reached, its
\* url ends with an image extension or is on one of the two image hosts, and
\* its lower-cased title contains no exclusion keyword; the score of the
\* record is the upvote field of the post.
C10_EmittedIffImageAndNotExcluded ==
    C10_UnitParsed =>
        \A k \in 1..Len(unit.response.children) :
            LET post == unit.response.children[k]
            IN  /\ k \in unit.accepted <=>
                      /\ C10_BelowCapAt(k)
                      /\ C10_HasImageExtension(post) \/ C10_OnImageHost(post)
                      /\ ~C10_TitleExcluded(post)
                /\ k \in unit.accepted => C10_RecordOf(k).score = C10_Upvotes(post)

\* C10 amended: a post is emitted if and only if the cap is not reached,
\* neither the post nor an earlier post of the same response raises an error,
\* its url ends with an image extension or contains the name of one of the
\* two image hosts, and its lower-cased title contains no exclusion keyword;
\* the score of the record is the upvote field of the post.
C10_EmittedIffReachedImageAndNotExcluded ==
    C10_UnitParsed =>
        \A k \in 1..Len(unit.response.children) :
            LET post == unit.response.children[k]
            IN  /\ k \in unit.accepted <=>
                      /\ C10_BelowCapAt(k)
                      /\ \A j \in 1..k : ~C10_Malformed(unit.response.children[j])
                      /\ C10_HasImageExtension(post) \/ C10_NamesImageHost(post)
                      /\ ~C10_TitleExcluded(post)
                /\ k \in unit.accepted => C10_RecordOf(k).score = C10_Upvotes(post)

\* Witness of C10: in one response, a post with an image url and an excluded
\* title was left out and a post with an image extension was emitted with its
\* upvotes as score.
C10_Witness ==
    /\ C10_UnitParsed
    /\ \E k, j \in 1..Len(unit.response.children) :
          /\ C10_HasImageExtension(unit.response.children[k])
          /\ C10_TitleExcluded(unit.response.children[k])
          /\ k \notin unit.accepted
          /\ C10_HasImageExtension(unit.response.children[j])
          /\ j \in unit.accepted
          /\ C10_RecordOf(j).score = JInt(2)

====
